---- MODULE Spec2Model ----
(***************************************************************************)
(* Faith Forward planner: the time-blocking engine (planner/time_blocker)  *)
(* over the event store (planner/event_manager).                           *)
(*                                                                         *)
(* Time.  A datetime is the number of minutes since 00:00 of a Monday      *)
(* (day 0); every datetime of the model is a whole minute.  A timedelta    *)
(* is a number of minutes.  None is the absent datetime.                   *)
(*                                                                         *)
(* Scores.  _score_time_slot computes a float.  The model carries          *)
(* 12 * score as an integer: 20 - d/30*20 and 15 - d/60*15 are whole       *)
(* twelfths for every whole minute d, so the scaled arithmetic is exact.   *)
(* A score s of the code is the model's 12*s; the bounds 0 and 100 are     *)
(* 0 and 1200.                                                             *)
(***************************************************************************)
EXTENDS Integers, Sequences, FiniteSets, TLC

VARIABLES
    events,     \* the rows of the events table, in rowid (insertion) order
    reminders,  \* the rows of the reminders table, in rowid order
    call        \* the operation that ran last: its name, arguments and result

vars == <<events, reminders, call>>

(***************************************************************************)
(* datetime                                                                *)
(***************************************************************************)
None == -1

DateTime(d, h, m) == (d * 24 + h) * 60 + m

DateOf(t) == t \div (24 * 60)

HourOf(t) == (t % (24 * 60)) \div 60

MinuteOf(t) == t % 60

WeekdayOf(t) == DateOf(t) % 7

(***************************************************************************)
(* sorted(xs, key=...) and list.sort(key=...): a stable sort.  keys is the *)
(* sequence of the elements' keys; the result is the sequence of the       *)
(* elements' indices in sorted order (equal keys keep their order).        *)
(***************************************************************************)
StableRank(keys, i) == 1 + Cardinality({j \in 1..Len(keys) : keys[j] < keys[i] \/ (keys[j] = keys[i] /\ j < i)})

StableSortOrder(keys) == [p \in 1..Len(keys) |-> CHOOSE i \in 1..Len(keys) : StableRank(keys, i) = p]

(***************************************************************************)
(* TimeBlocker.__init__: the work hours, as (hour, minute)                 *)
(***************************************************************************)
work_start == <<9, 0>>

work_end == <<17, 0>>

(***************************************************************************)
(* TimeBlocker._find_free_slots.  A slot is <<start, end>>.                *)
(***************************************************************************)
SortedEvents(day_events) ==
    LET with_both == SelectSeq(day_events, LAMBDA e : e.start_time # None /\ e.end_time # None)
        order == StableSortOrder([i \in 1..Len(with_both) |-> with_both[i].start_time])
    IN  [i \in 1..Len(with_both) |-> with_both[order[i]]]

SlotBeforeFirst(ws, we, sorted_events, duration) ==
    IF sorted_events = <<>> \/ sorted_events[1].start_time > ws
    THEN LET slot_end == IF sorted_events # <<>> THEN sorted_events[1].start_time ELSE we
         IN  IF slot_end - ws >= duration THEN << <<ws, ws + duration>> >> ELSE <<>>
    ELSE <<>>

\* mutant: a gap between two events must be longer than the duration
MutantSlotsBetween(sorted_events, duration) ==
    LET gaps == [i \in 1..(Len(sorted_events) - 1) |-> <<sorted_events[i].end_time, sorted_events[i + 1].start_time>>]
        fits == SelectSeq(gaps, LAMBDA g : g[2] - g[1] > duration)
    IN  [i \in 1..Len(fits) |-> <<fits[i][1], fits[i][1] + duration>>]

SlotsBetween(sorted_events, duration) ==
    LET gaps == [i \in 1..(Len(sorted_events) - 1) |-> <<sorted_events[i].end_time, sorted_events[i + 1].start_time>>]
        fits == SelectSeq(gaps, LAMBDA g : g[2] - g[1] >= duration /\ g[1] + duration <= g[2])
    IN  [i \in 1..Len(fits) |-> <<fits[i][1], fits[i][1] + duration>>]

\* mutant: the slot after the last event takes the whole gap to the end of
\* the work hours
MutantSlotAfterLast(ws, we, sorted_events, duration) ==
    IF sorted_events # <<>>
    THEN LET last_event == sorted_events[Len(sorted_events)]
         IN  IF we - last_event.end_time >= duration THEN << <<last_event.end_time, we>> >> ELSE <<>>
    ELSE IF we - ws >= duration THEN << <<ws, ws + duration>> >> ELSE <<>>

SlotAfterLast(ws, we, sorted_events, duration) ==
    IF sorted_events # <<>>
    THEN LET last_event == sorted_events[Len(sorted_events)]
         IN  IF we - last_event.end_time >= duration /\ last_event.end_time + duration <= we
             THEN << <<last_event.end_time, last_event.end_time + duration>> >>
             ELSE <<>>
    ELSE IF we - ws >= duration THEN << <<ws, ws + duration>> >> ELSE <<>>

_find_free_slots(ws, we, day_events, duration) ==
    LET sorted_events == SortedEvents(day_events)
    IN  SlotBeforeFirst(ws, we, sorted_events, duration)
        \o SlotsBetween(sorted_events, duration)
        \o SlotAfterLast(ws, we, sorted_events, duration)

(***************************************************************************)
(* TimeBlocker.__init__: the category profiles.  An anchor is              *)
(* <<hour, minute>>.                                                       *)
(***************************************************************************)
event_type_preferences ==
    [meeting |-> [preferred_times |-> << <<10, 0>>, <<14, 0>>, <<15, 0>> >>, avoid_times |-> << <<12, 0>>, <<17, 0>> >>, min_duration |-> 30, max_duration |-> 120],
     call    |-> [preferred_times |-> << <<10, 0>>, <<14, 0>>, <<15, 30>> >>, avoid_times |-> << <<12, 0>>, <<17, 0>> >>, min_duration |-> 15, max_duration |-> 60],
     focus   |-> [preferred_times |-> << <<9, 0>>, <<10, 0>>, <<14, 0>> >>, avoid_times |-> << <<12, 0>>, <<16, 0>> >>, min_duration |-> 60, max_duration |-> 240],
     lunch   |-> [preferred_times |-> << <<12, 0>>, <<12, 30>>, <<13, 0>> >>, avoid_times |-> << <<9, 0>>, <<16, 0>> >>, min_duration |-> 30, max_duration |-> 90],
     break   |-> [preferred_times |-> << <<10, 30>>, <<15, 0>>, <<15, 30>> >>, avoid_times |-> << <<12, 0>>, <<17, 0>> >>, min_duration |-> 15, max_duration |-> 30]]

\* prefs.get('preferred_times', []) after event_type_preferences.get(event_type, {})
PreferredTimes(event_type) == IF event_type \in DOMAIN event_type_preferences THEN event_type_preferences[event_type].preferred_times ELSE <<>>

AvoidTimes(event_type) == IF event_type \in DOMAIN event_type_preferences THEN event_type_preferences[event_type].avoid_times ELSE <<>>

(***************************************************************************)
(* str.lower and the substring test `keyword in title_lower`               *)
(***************************************************************************)
LowerChar(c) ==
    LET upper == "ABCDEFGHIJKLMNOPQRSTUVWXYZ"
        lower == "abcdefghijklmnopqrstuvwxyz"
        at == {i \in 1..26 : SubSeq(upper, i, i) = c}
    IN  IF at = {} THEN c ELSE SubSeq(lower, CHOOSE i \in at : TRUE, CHOOSE i \in at : TRUE)

RECURSIVE Lower(_)
Lower(s) == IF Len(s) = 0 THEN "" ELSE LowerChar(SubSeq(s, 1, 1)) \o Lower(SubSeq(s, 2, Len(s)))

Contains(text, keyword) == \E i \in 1..(Len(text) - Len(keyword) + 1) : SubSeq(text, i, i + Len(keyword) - 1) = keyword

type_keywords ==
    [meeting |-> <<"meeting", "standup", "sync", "review", "discussion">>,
     call    |-> <<"call", "phone", "interview", "chat">>,
     focus   |-> <<"focus", "work", "coding", "development", "analysis">>,
     lunch   |-> <<"lunch", "meal", "eat", "food">>,
     break   |-> <<"break", "rest", "coffee", "tea">>]

_are_event_types_similar(type1, event_title) ==
    LET title_lower == Lower(event_title)
        keywords == IF type1 \in DOMAIN type_keywords THEN type_keywords[type1] ELSE <<>>
    IN  \E k \in 1..Len(keywords) : Contains(title_lower, keywords[k])

(***************************************************************************)
(* TimeBlocker._get_buffer_time and _count_similar_events_nearby           *)
(***************************************************************************)
SetMax(S) == CHOOSE x \in S : \A y \in S : y <= x

SetMin(S) == CHOOSE x \in S : \A y \in S : x <= y

\* mutant: an event that ends at the target time does not count as before it
Mutant_get_buffer_time(target_time, day_events, before) ==
    LET both == {i \in 1..Len(day_events) : day_events[i].start_time # None /\ day_events[i].end_time # None}
        relevant == IF before
                    THEN {i \in both : day_events[i].end_time < target_time}
                    ELSE {i \in both : day_events[i].start_time >= target_time}
    IN  IF relevant = {} THEN 60
        ELSE IF before
             THEN target_time - SetMax({day_events[i].end_time : i \in relevant})
             ELSE SetMin({day_events[i].start_time : i \in relevant}) - target_time

_get_buffer_time(target_time, day_events, before) ==
    LET both == {i \in 1..Len(day_events) : day_events[i].start_time # None /\ day_events[i].end_time # None}
        relevant == IF before
                    THEN {i \in both : day_events[i].end_time <= target_time}
                    ELSE {i \in both : day_events[i].start_time >= target_time}
    IN  IF relevant = {} THEN 60
        ELSE IF before
             THEN target_time - SetMax({day_events[i].end_time : i \in relevant})
             ELSE SetMin({day_events[i].start_time : i \in relevant}) - target_time

_count_similar_events_nearby(start_time, end_time, event_type, day_events) ==
    LET window_start == start_time - 2 * 60
        window_end == end_time + 2 * 60
    IN  Cardinality({i \in 1..Len(day_events) :
            /\ day_events[i].start_time # None
            /\ window_start <= day_events[i].start_time
            /\ day_events[i].start_time <= window_end
            /\ _are_event_types_similar(event_type, day_events[i].title)})

(***************************************************************************)
(* TimeBlocker._score_time_slot, in twelfths of a point                    *)
(***************************************************************************)
Abs(x) == IF x < 0 THEN -x ELSE x

RECURSIVE SumSeq(_)
SumSeq(s) == IF s = <<>> THEN 0 ELSE Head(s) + SumSeq(Tail(s))

TimeDiff(start_time, anchor) == Abs((HourOf(start_time) * 60 + MinuteOf(start_time)) - (anchor[1] * 60 + anchor[2]))

\* mutant: only the first preferred anchor within 30 minutes counts
MutantPreferredBonus(start_time, event_type) ==
    LET anchors == PreferredTimes(event_type)
        near == SelectSeq(anchors, LAMBDA a : TimeDiff(start_time, a) <= 30)
    IN  IF near = <<>> THEN 0 ELSE 12 * 20 - 8 * TimeDiff(start_time, near[1])

\* score += 20 - (time_diff / 30 * 20), for each preferred anchor within 30 minutes
PreferredBonus(start_time, event_type) ==
    LET anchors == PreferredTimes(event_type)
    IN  SumSeq([k \in 1..Len(anchors) |-> IF TimeDiff(start_time, anchors[k]) <= 30 THEN 12 * 20 - 8 * TimeDiff(start_time, anchors[k]) ELSE 0])

\* score -= 15 - (time_diff / 60 * 15), for each avoided anchor within 60 minutes
AvoidPenalty(start_time, event_type) ==
    LET anchors == AvoidTimes(event_type)
    IN  SumSeq([k \in 1..Len(anchors) |-> IF TimeDiff(start_time, anchors[k]) <= 60 THEN 12 * 15 - 3 * TimeDiff(start_time, anchors[k]) ELSE 0])

BufferBonus(start_time, end_time, day_events) ==
    (IF _get_buffer_time(start_time, day_events, TRUE) >= 15 THEN 12 * 10 ELSE 0)
    + (IF _get_buffer_time(end_time, day_events, FALSE) >= 15 THEN 12 * 10 ELSE 0)

WeekdayAdjustment(start_time) ==
    LET weekday == WeekdayOf(start_time)
    IN  IF weekday = 0 THEN 12 * 5
        ELSE IF weekday = 4 THEN -(12 * 5)
        ELSE IF weekday >= 5 THEN -(12 * 20)
        ELSE 0

TimeOfDayAdjustment(start_time, event_type) ==
    LET hour == HourOf(start_time)
    IN  IF 9 <= hour /\ hour <= 11 THEN (IF event_type \in {"focus", "meeting"} THEN 12 * 15 ELSE 0)
        ELSE IF 14 <= hour /\ hour <= 16 THEN (IF event_type \in {"meeting", "call"} THEN 12 * 10 ELSE 0)
        ELSE IF hour >= 17 THEN -(12 * 20)
        ELSE 0

\* mutant: the lunch penalty is for the categories of the profile table
MutantLunchPenalty(start_time, event_type) ==
    LET hour == HourOf(start_time)
    IN  IF 12 <= hour /\ hour <= 13 /\ event_type # "lunch" /\ event_type \in DOMAIN event_type_preferences THEN 12 * 25 ELSE 0

LunchPenalty(start_time, event_type) ==
    LET hour == HourOf(start_time)
    IN  IF 12 <= hour /\ hour <= 13 /\ event_type # "lunch" THEN 12 * 25 ELSE 0

ClusteringBonus(start_time, end_time, event_type, day_events) == 12 * 5 * _count_similar_events_nearby(start_time, end_time, event_type, day_events)

\* the score before `max(0, min(100, score))`
UnclampedScore(start_time, end_time, event_type, day_events) ==
    12 * 50
    + PreferredBonus(start_time, event_type)
    - AvoidPenalty(start_time, event_type)
    + BufferBonus(start_time, end_time, day_events)
    + WeekdayAdjustment(start_time)
    + TimeOfDayAdjustment(start_time, event_type)
    - LunchPenalty(start_time, event_type)
    + ClusteringBonus(start_time, end_time, event_type, day_events)

\* mutant: the score returned as computed, without the final clamp
Mutant_score_time_slot(start_time, end_time, event_type, day_events) == UnclampedScore(start_time, end_time, event_type, day_events)

Clamp(score) == IF score > 12 * 100 THEN 12 * 100 ELSE IF score < 0 THEN 0 ELSE score

_score_time_slot(start_time, end_time, event_type, day_events) == Clamp(UnclampedScore(start_time, end_time, event_type, day_events))

(***************************************************************************)
(* TimeBlocker._generate_reason                                            *)
(***************************************************************************)
weekday_names == <<"Monday", "Tuesday", "Wednesday", "Thursday", "Friday", "Saturday", "Sunday">>

RECURSIVE Join(_, _)
Join(sep, parts) == IF parts = <<>> THEN "" ELSE IF Len(parts) = 1 THEN parts[1] ELSE parts[1] \o sep \o Join(sep, Tail(parts))

TimeReasons(start_time) ==
    LET hour == HourOf(start_time)
    IN  IF 9 <= hour /\ hour <= 11 THEN <<"optimal morning focus time">>
        ELSE IF 14 <= hour /\ hour <= 16 THEN <<"productive afternoon slot">>
        ELSE IF hour = 12 THEN <<"lunch time">>
        ELSE IF hour >= 17 THEN <<"after-hours slot">>
        ELSE <<>>

BufferReasons(start_time, end_time, day_events) ==
    LET buffer_before == _get_buffer_time(start_time, day_events, TRUE)
        buffer_after == _get_buffer_time(end_time, day_events, FALSE)
    IN  IF buffer_before >= 30 /\ buffer_after >= 30 THEN <<"well-spaced with buffer time">>
        ELSE IF buffer_before >= 15 \/ buffer_after >= 15 THEN <<"has buffer time">>
        ELSE <<>>

ClusteringReasons(start_time, end_time, event_type, day_events) ==
    LET similar_count == _count_similar_events_nearby(start_time, end_time, event_type, day_events)
    IN  IF similar_count > 0 THEN <<"groups with " \o ToString(similar_count) \o " similar events">> ELSE <<>>

WeekdayReasons(start_time) ==
    IF WeekdayOf(start_time) = 0 THEN <<"fresh start of week">>
    ELSE IF WeekdayOf(start_time) = 4 THEN <<"end of week wrap-up">>
    ELSE <<>>

ReasonList(start_time, end_time, event_type, day_events) ==
    LET reasons == TimeReasons(start_time) \o BufferReasons(start_time, end_time, day_events) \o ClusteringReasons(start_time, end_time, event_type, day_events) \o WeekdayReasons(start_time)
    IN  IF reasons = <<>> THEN <<"available time slot">> ELSE reasons

_generate_reason(start_time, end_time, event_type, day_events) == weekday_names[WeekdayOf(start_time) + 1] \o " - " \o Join(", ", ReasonList(start_time, end_time, event_type, day_events))

(***************************************************************************)
(* TimeBlock and TimeBlocker._analyze_day                                  *)
(***************************************************************************)
TimeBlock(start_time, end_time, score, reason) == [start_time |-> start_time, end_time |-> end_time, score |-> score, reason |-> reason]

_is_workday(date_obj) == date_obj % 7 < 5

DayEvents(date_obj, existing_events) ==
    LET day_start == DateTime(date_obj, 0, 0)
        day_end == day_start + 24 * 60
    IN  SelectSeq(existing_events, LAMBDA e : e.start_time # None /\ day_start <= e.start_time /\ e.start_time < day_end)

_analyze_day(date_obj, duration, event_type, existing_events) ==
    LET day_events == DayEvents(date_obj, existing_events)
        free_slots == _find_free_slots(DateTime(date_obj, work_start[1], work_start[2]), DateTime(date_obj, work_end[1], work_end[2]), day_events, duration)
    IN  [k \in 1..Len(free_slots) |-> TimeBlock(free_slots[k][1], free_slots[k][2], _score_time_slot(free_slots[k][1], free_slots[k][2], event_type, day_events), _generate_reason(free_slots[k][1], free_slots[k][2], event_type, day_events))]

(***************************************************************************)
(* The events table.  A row keeps its timestamps as the text               *)
(* datetime.isoformat() wrote, <<date, hour, minute>> here, or NULL; SQL   *)
(* compares the texts position by position.                                *)
(***************************************************************************)
NULL == <<>>

isoformat(t) == <<DateOf(t), HourOf(t), MinuteOf(t)>>

fromisoformat(text) == DateTime(text[1], text[2], text[3])

TextLess(a, b) == a[1] < b[1] \/ (a[1] = b[1] /\ (a[2] < b[2] \/ (a[2] = b[2] /\ a[3] < b[3])))

\* column >= ? and column <= ?: a comparison with NULL is not true
SqlGe(column, text) == column # NULL /\ ~TextLess(column, text)

SqlLe(column, text) == column # NULL /\ ~TextLess(text, column)

\* ORDER BY start_time: NULL first, then ascending; rows with equal keys
\* come out in rowid order
OrderByStartTime(rows) ==
    LET key(i) == Cardinality({j \in 1..Len(rows) : rows[j].start_time # rows[i].start_time /\ (rows[j].start_time = NULL \/ (rows[i].start_time # NULL /\ TextLess(rows[j].start_time, rows[i].start_time)))})
        order == StableSortOrder([i \in 1..Len(rows) |-> key(i)])
    IN  [i \in 1..Len(rows) |-> rows[order[i]]]

\* Event.from_dict(dict(row))
from_dict(row) ==
    [id |-> row.id, title |-> row.title,
     start_time |-> IF row.start_time # NULL THEN fromisoformat(row.start_time) ELSE None,
     end_time |-> IF row.end_time # NULL THEN fromisoformat(row.end_time) ELSE None]

\* the row create_event inserts
NewRow(rows, title, start_time, end_time) ==
    [id |-> Len(rows) + 1, title |-> title,
     start_time |-> IF start_time # None THEN isoformat(start_time) ELSE NULL,
     end_time |-> IF end_time # None THEN isoformat(end_time) ELSE NULL]

\* mutant: the third clause of the WHERE is missing
MutantInWindow(row, from, to) ==
    \/ SqlGe(row.start_time, from) /\ SqlLe(row.start_time, to)
    \/ SqlGe(row.end_time, from) /\ SqlLe(row.end_time, to)

InWindow(row, from, to) ==
    \/ SqlGe(row.start_time, from) /\ SqlLe(row.start_time, to)
    \/ SqlGe(row.end_time, from) /\ SqlLe(row.end_time, to)
    \/ SqlLe(row.start_time, from) /\ SqlGe(row.end_time, to)

get_events(rows, start_date, end_date) ==
    LET selected == IF start_date # None /\ end_date # None
                    THEN SelectSeq(rows, LAMBDA row : InWindow(row, isoformat(start_date), isoformat(end_date)))
                    ELSE rows
        ordered == OrderByStartTime(selected)
    IN  [i \in 1..Len(ordered) |-> from_dict(ordered[i])]

(***************************************************************************)
(* TimeBlocker.suggest_time_blocks                                         *)
(***************************************************************************)
\* the loop over the dates of the window: the suggestions of every workday
RECURSIVE CollectDays(_, _, _, _, _)
CollectDays(current_date, end_date_only, duration, event_type, existing_events) ==
    IF current_date > end_date_only THEN <<>>
    ELSE (IF _is_workday(current_date) THEN _analyze_day(current_date, duration, event_type, existing_events) ELSE <<>>)
         \o CollectDays(current_date + 1, end_date_only, duration, event_type, existing_events)

WindowStart(start_date, now) == IF start_date = None THEN now ELSE start_date

WindowEnd(start_date, end_date, now) == IF end_date = None THEN WindowStart(start_date, now) + 7 * 24 * 60 ELSE end_date

\* `suggestions` when the loop ends, in generation order
Generated(rows, duration_minutes, event_type, start_date, end_date, now) ==
    LET from == WindowStart(start_date, now)
        to == WindowEnd(start_date, end_date, now)
    IN  CollectDays(DateOf(from), DateOf(to), duration_minutes, event_type, get_events(rows, from, to))

\* mutant: sorted ascending and then reversed, which turns equal scores
\* around
MutantSortByScore(suggestions) ==
    LET ascending == StableSortOrder([i \in 1..Len(suggestions) |-> suggestions[i].score])
    IN  [p \in 1..Len(suggestions) |-> ascending[Len(suggestions) + 1 - p]]

\* suggestions.sort(key=lambda x: x.score, reverse=True): the positions of
\* `suggestions` by score descending, equal scores in their original order
SortByScore(suggestions) == StableSortOrder([i \in 1..Len(suggestions) |-> -suggestions[i].score])

\* mutant: one element too many
MutantSliceTo(xs, k) == IF k >= 0 THEN SubSeq(xs, 1, IF k + 1 < Len(xs) THEN k + 1 ELSE Len(xs)) ELSE SubSeq(xs, 1, Len(xs) + k)

\* xs[:k]
SliceTo(xs, k) == IF k >= 0 THEN SubSeq(xs, 1, IF k < Len(xs) THEN k ELSE Len(xs)) ELSE SubSeq(xs, 1, Len(xs) + k)

\* the blocks returned, as positions of `suggestions`
Returned(suggestions, max_suggestions) == SliceTo(SortByScore(suggestions), max_suggestions)

suggest_time_blocks(rows, duration_minutes, event_type, start_date, end_date, max_suggestions, now) ==
    LET suggestions == Generated(rows, duration_minutes, event_type, start_date, end_date, now)
        returned == Returned(suggestions, max_suggestions)
    IN  [suggestions |-> suggestions, returned |-> returned, result |-> [i \in 1..Len(returned) |-> suggestions[returned[i]]]]

(***************************************************************************)
(* TimeBlocker.analyze_schedule_conflicts                                  *)
(***************************************************************************)
\* mutant: both tests let the events touch
MutantTouching_events_overlap(event1, event2) ==
    IF event1.start_time = None \/ event1.end_time = None \/ event2.start_time = None \/ event2.end_time = None
    THEN FALSE
    ELSE event1.start_time <= event2.end_time /\ event2.start_time <= event1.end_time

\* mutant: the second test lets the first event end at the start of the
\* second
Mutant_events_overlap(event1, event2) ==
    IF event1.start_time = None \/ event1.end_time = None \/ event2.start_time = None \/ event2.end_time = None
    THEN FALSE
    ELSE event1.start_time < event2.end_time /\ event2.start_time <= event1.end_time

_events_overlap(event1, event2) ==
    IF event1.start_time = None \/ event1.end_time = None \/ event2.start_time = None \/ event2.end_time = None
    THEN FALSE
    ELSE event1.start_time < event2.end_time /\ event2.start_time < event1.end_time

\* mutant: the inner loop starts at the event of the outer loop
MutantComparedPairs(n) ==
    SelectSeq([k \in 1..(n * n) |-> <<((k - 1) \div n) + 1, ((k - 1) % n) + 1>>], LAMBDA p : p[1] <= p[2])

\* the positions <<i, j>> the two nested loops visit, in the order they
\* visit them: every event with every event after it
ComparedPairs(n) ==
    SelectSeq([k \in 1..(n * n) |-> <<((k - 1) \div n) + 1, ((k - 1) % n) + 1>>], LAMBDA p : p[1] < p[2])

\* mutant: the overlap is cut at the later end
MutantConflict(event1, event2) ==
    [event1 |-> event1.title, event2 |-> event2.title,
     overlap_start |-> SetMax({event1.start_time, event2.start_time}),
     overlap_end |-> SetMax({event1.end_time, event2.end_time})]

Conflict(event1, event2) ==
    [event1 |-> event1.title, event2 |-> event2.title,
     overlap_start |-> SetMax({event1.start_time, event2.start_time}),
     overlap_end |-> SetMin({event1.end_time, event2.end_time})]

\* analysis['conflicts']
Conflicts(fetched) ==
    LET overlapping == SelectSeq(ComparedPairs(Len(fetched)), LAMBDA p : _events_overlap(fetched[p[1]], fetched[p[2]]))
    IN  [k \in 1..Len(overlapping) |-> Conflict(fetched[overlapping[k][1]], fetched[overlapping[k][2]])]

\* mutant: a gap of two hours counts
MutantIsLargeGap(current_event, next_event) ==
    /\ DateOf(current_event.end_time) = DateOf(next_event.start_time)
    /\ next_event.start_time - current_event.end_time >= 2 * 60

IsLargeGap(current_event, next_event) ==
    /\ DateOf(current_event.end_time) = DateOf(next_event.start_time)
    /\ next_event.start_time - current_event.end_time > 2 * 60

\* analysis['gaps']; gap_duration_hours is carried as 60 x its value (the
\* minutes of the gap).  sorted_events is the expression _find_free_slots
\* sorts with.
Gaps(fetched) ==
    LET sorted_events == SortedEvents(fetched)
        large == SelectSeq([i \in 1..(Len(sorted_events) - 1) |-> i], LAMBDA i : IsLargeGap(sorted_events[i], sorted_events[i + 1]))
    IN  [k \in 1..Len(large) |->
            [after_event |-> sorted_events[large[k]].title, before_event |-> sorted_events[large[k] + 1].title,
             gap_duration_hours |-> sorted_events[large[k] + 1].start_time - sorted_events[large[k]].end_time,
             start_time |-> sorted_events[large[k]].end_time, end_time |-> sorted_events[large[k] + 1].start_time]]

\* daily_event_counts: the dates in the order the dict got them, and the
\* count of each
DailyEventCounts(fetched) ==
    LET started == SelectSeq(fetched, LAMBDA e : e.start_time # None)
        first == SelectSeq([i \in 1..Len(started) |-> i], LAMBDA i : \A j \in 1..(i - 1) : DateOf(started[j].start_time) # DateOf(started[i].start_time))
    IN  [k \in 1..Len(first) |->
            [date |-> DateOf(started[first[k]].start_time),
             event_count |-> Cardinality({j \in 1..Len(started) : DateOf(started[j].start_time) = DateOf(started[first[k]].start_time)})]]

\* mutant: a day needs more than 8 events
MutantIsOverloaded(count) == count > 8

IsOverloaded(count) == count >= 8

\* analysis['overloaded_days']
OverloadedDays(fetched) == SelectSeq(DailyEventCounts(fetched), LAMBDA day : IsOverloaded(day.event_count))

\* mutant: the hint on gaps is given when there are conflicts
MutantOptimizationSuggestions(conflicts, gaps, overloaded_days) ==
    (IF conflicts # <<>> THEN <<"Consider rescheduling conflicting events for better time management">> ELSE <<>>)
    \o (IF conflicts # <<>> THEN <<"Large gaps in schedule could be used for focused work or meetings">> ELSE <<>>)
    \o (IF overloaded_days # <<>> THEN <<"Some days are overloaded - consider redistributing events">> ELSE <<>>)

\* analysis['optimization_suggestions']
OptimizationSuggestions(conflicts, gaps, overloaded_days) ==
    (IF conflicts # <<>> THEN <<"Consider rescheduling conflicting events for better time management">> ELSE <<>>)
    \o (IF gaps # <<>> THEN <<"Large gaps in schedule could be used for focused work or meetings">> ELSE <<>>)
    \o (IF overloaded_days # <<>> THEN <<"Some days are overloaded - consider redistributing events">> ELSE <<>>)

\* `fetched` is the local `events`: what get_events returned for the window
analyze_schedule_conflicts(rows, start_date, end_date, now) ==
    LET fetched == get_events(rows, WindowStart(start_date, now), WindowEnd(start_date, end_date, now))
        conflicts == Conflicts(fetched)
        gaps == Gaps(fetched)
        overloaded_days == OverloadedDays(fetched)
    IN  [fetched |-> fetched,
         analysis |-> [total_events |-> Len(fetched), conflicts |-> conflicts, gaps |-> gaps, overloaded_days |-> overloaded_days,
                       optimization_suggestions |-> OptimizationSuggestions(conflicts, gaps, overloaded_days)]]

(***************************************************************************)
(* The free-slot finder on its own: one day's events, a working-hours      *)
(* window and a duration, drawn from bounded sets.                         *)
(***************************************************************************)
MaxDayEvents == 2

FinderDays == {4}

FinderClock == {<<8, 0>>, <<9, 0>>, <<9, 30>>, <<10, 0>>, <<11, 0>>, <<12, 0>>, <<17, 0>>, <<18, 0>>}

FinderTimes == {DateTime(d, c[1], c[2]) : d \in FinderDays, c \in FinderClock}

FinderDurations == {60, 120, 540}

FinderWindows == {<<work_start, work_end>>}

FinderEvents == [id : {0}, title : {""}, start_time : FinderTimes, end_time : FinderTimes \cup {None}]

\* _analyze_day hands the finder events in the order get_events returned
\* them: ascending start_time.
FinderDayEvents == {s \in UNION {[1..n -> FinderEvents] : n \in 0..MaxDayEvents} : \A i \in 1..(Len(s) - 1) : s[i].start_time <= s[i + 1].start_time}

FinderInit ==
    /\ events = <<>>
    /\ reminders = <<>>
    /\ \E d \in FinderDays, w \in FinderWindows, day_events \in FinderDayEvents, duration \in FinderDurations :
          call = [op |-> "arguments", work_start |-> DateTime(d, w[1][1], w[1][2]), work_end |-> DateTime(d, w[2][1], w[2][2]), day_events |-> day_events, duration |-> duration]

FindFreeSlots ==
    /\ call.op = "arguments"
    /\ call' = [call EXCEPT !.op = "_find_free_slots"] @@ [free_slots |-> _find_free_slots(call.work_start, call.work_end, call.day_events, call.duration)]
    /\ UNCHANGED <<events, reminders>>

FinderNext == FindFreeSlots

SpecFinder == FinderInit /\ [][FinderNext]_vars

(***************************************************************************)
(* The free-slot finder asked for a duration of zero or less.              *)
(***************************************************************************)
NonPositiveDurations == {-60, 0}

NonPositiveInit ==
    /\ events = <<>>
    /\ reminders = <<>>
    /\ \E d \in FinderDays, w \in FinderWindows, day_events \in FinderDayEvents, duration \in NonPositiveDurations :
          call = [op |-> "arguments", work_start |-> DateTime(d, w[1][1], w[1][2]), work_end |-> DateTime(d, w[2][1], w[2][2]), day_events |-> day_events, duration |-> duration]

SpecNonPositive == NonPositiveInit /\ [][FinderNext]_vars

(***************************************************************************)
(* The slot scorer on its own: a slot, a category and the day's events,    *)
(* drawn from bounded sets.                                                *)
(***************************************************************************)
ScorerDays == {0, 4, 5}

ScorerSlotClock == {<<9, 0>>, <<10, 0>>, <<12, 0>>, <<12, 15>>, <<17, 0>>}

ScorerEventClock == {<<8, 45>>, <<12, 0>>, <<13, 0>>}

ScorerDurations == {60}

ScorerTitles == {"Team Sync", "Lunch"}

ScorerTypes == {"meeting", "call", "focus", "lunch", "break", "other"}

\* the events handed to the scorer are the day's events: well-formed or
\* without an end here (the finder and the planner take malformed ones too)
ScorerTimes(d) == {DateTime(d, c[1], c[2]) : c \in ScorerEventClock}

ScorerEvents(d) == {e \in [id : {0}, title : ScorerTitles, start_time : ScorerTimes(d), end_time : ScorerTimes(d) \cup {None}] : e.end_time = None \/ e.start_time <= e.end_time}

ScorerDayEvents(d) == {s \in UNION {[1..n -> ScorerEvents(d)] : n \in 0..MaxDayEvents} : \A i \in 1..(Len(s) - 1) : s[i].start_time <= s[i + 1].start_time}

ScorerInit ==
    /\ events = <<>>
    /\ reminders = <<>>
    /\ \E d \in ScorerDays, c \in ScorerSlotClock, duration \in ScorerDurations, event_type \in ScorerTypes :
          \E day_events \in ScorerDayEvents(d) :
             call = [op |-> "arguments", start_time |-> DateTime(d, c[1], c[2]), end_time |-> DateTime(d, c[1], c[2]) + duration, event_type |-> event_type, day_events |-> day_events]

ScoreTimeSlot ==
    /\ call.op = "arguments"
    /\ call' = [call EXCEPT !.op = "_score_time_slot"] @@ [score |-> _score_time_slot(call.start_time, call.end_time, call.event_type, call.day_events)]
    /\ UNCHANGED <<events, reminders>>

ScorerNext == ScoreTimeSlot

SpecScorer == ScorerInit /\ [][ScorerNext]_vars

(***************************************************************************)
(* The reason generator on its own: a slot of a workday, a category and    *)
(* the day's events, drawn from bounded sets.                              *)
(***************************************************************************)
ReasonDays == {0, 1}

ReasonSlotClock == {<<8, 0>>, <<9, 0>>, <<12, 0>>, <<13, 0>>}

ReasonTypes == {"meeting", "lunch"}

ReasonInit ==
    /\ events = <<>>
    /\ reminders = <<>>
    /\ \E d \in ReasonDays, c \in ReasonSlotClock, duration \in ScorerDurations, event_type \in ReasonTypes :
          \E day_events \in ScorerDayEvents(d) :
             call = [op |-> "arguments", start_time |-> DateTime(d, c[1], c[2]), end_time |-> DateTime(d, c[1], c[2]) + duration, event_type |-> event_type, day_events |-> day_events]

GenerateReason ==
    /\ call.op = "arguments"
    /\ call' = [call EXCEPT !.op = "_generate_reason"] @@ [reason |-> _generate_reason(call.start_time, call.end_time, call.event_type, call.day_events)]
    /\ UNCHANGED <<events, reminders>>

ReasonNext == GenerateReason

SpecReason == ReasonInit /\ [][ReasonNext]_vars

(***************************************************************************)
(* The planner: events are created in the store and time blocks are        *)
(* suggested over it.                                                      *)
(***************************************************************************)
MaxEvents == 2

Titles == {"Team Sync"}

EventStarts == {DateTime(4, 9, 0), DateTime(4, 10, 0), DateTime(7, 10, 0), None}

EventEnds == {DateTime(4, 10, 0), DateTime(4, 11, 0), DateTime(5, 10, 0), None}

Durations == {60, 120}

EventTypes == {"meeting"}

\* <<start_date, end_date>>
Windows == {<<DateTime(4, 0, 0), DateTime(7, 17, 0)>>, <<DateTime(4, 10, 30), None>>}

MaxSuggestions == {-1, 0, 2, 5}

Clock == {DateTime(4, 8, 0)}

Init ==
    /\ events = <<>>
    /\ reminders = <<>>
    /\ call = [op |-> "init"]

\* create_event without reminder_minutes: no reminder is created
create_event(title, start_time, end_time) ==
    /\ Len(events) < MaxEvents
    /\ events' = Append(events, NewRow(events, title, start_time, end_time))
    /\ call' = [op |-> "create_event"]
    /\ UNCHANGED reminders

\* A call reads the store and changes nothing, so a second call right after
\* one reaches only states a first call reaches: calls are taken from the
\* states in which the store was last written.
SuggestTimeBlocks(duration_minutes, event_type, start_date, end_date, max_suggestions, now) ==
    /\ call.op # "suggest_time_blocks"
    /\ call' = [op |-> "suggest_time_blocks", duration_minutes |-> duration_minutes, event_type |-> event_type, start_date |-> WindowStart(start_date, now), end_date |-> WindowEnd(start_date, end_date, now), max_suggestions |-> max_suggestions]
               @@ suggest_time_blocks(events, duration_minutes, event_type, start_date, end_date, max_suggestions, now)
    /\ UNCHANGED <<events, reminders>>

Next ==
    \/ \E title \in Titles, start_time \in EventStarts, end_time \in EventEnds : create_event(title, start_time, end_time)
    \/ \E duration_minutes \in Durations, event_type \in EventTypes, w \in Windows, max_suggestions \in MaxSuggestions, now \in Clock :
          SuggestTimeBlocks(duration_minutes, event_type, w[1], w[2], max_suggestions, now)

Spec == Init /\ [][Next]_vars

(***************************************************************************)
(* The conflict test on its own: two events drawn from bounded sets, with  *)
(* and without timestamps.                                                 *)
(***************************************************************************)
OverlapTimes == {DateTime(4, 9, 0), DateTime(4, 10, 0), DateTime(4, 12, 0), None}

OverlapEvents == [id : {0}, title : {""}, start_time : OverlapTimes, end_time : OverlapTimes]

OverlapInit ==
    /\ events = <<>>
    /\ reminders = <<>>
    /\ \E event1 \in OverlapEvents, event2 \in OverlapEvents :
          call = [op |-> "arguments", event1 |-> event1, event2 |-> event2]

\* the test is applied to the pair in both orders
EventsOverlap ==
    /\ call.op = "arguments"
    /\ call' = [call EXCEPT !.op = "_events_overlap"] @@ [overlap |-> _events_overlap(call.event1, call.event2), overlap_swapped |-> _events_overlap(call.event2, call.event1)]
    /\ UNCHANGED <<events, reminders>>

OverlapNext == EventsOverlap

SpecOverlap == OverlapInit /\ [][OverlapNext]_vars

(***************************************************************************)
(* The analyzer: events are created in the store and the schedule is       *)
(* analyzed over it.                                                       *)
(***************************************************************************)
MaxAnalyzed == 3

AnalyzedTimes == {DateTime(4, 9, 0), DateTime(4, 10, 0), DateTime(4, 12, 0), DateTime(5, 1, 0)}

\* <<start_time, end_time>>: every event with start <= end, one that ends
\* before it starts, one without an end and one without a start
AnalyzedEvents ==
    {e \in AnalyzedTimes \X AnalyzedTimes : e[1] <= e[2]}
    \cup {<<DateTime(4, 12, 0), DateTime(4, 9, 0)>>, <<DateTime(4, 10, 0), None>>, <<None, DateTime(4, 12, 0)>>}

\* <<start_date, end_date>>
AnalyzedWindows == {<<DateTime(4, 0, 0), DateTime(5, 23, 0)>>, <<None, None>>}

AnalyzerClock == {DateTime(4, 9, 30)}

\* EventManager.create_event on a store of fewer than `limit` events
CreateEvent(limit, title, start_time, end_time) ==
    /\ Len(events) < limit
    /\ events' = Append(events, NewRow(events, title, start_time, end_time))
    /\ call' = [op |-> "create_event"]
    /\ UNCHANGED reminders

\* A call reads the store and changes nothing: calls are taken from the
\* states in which the store was last written.
AnalyzeScheduleConflicts(start_date, end_date, now) ==
    /\ call.op # "analyze_schedule_conflicts"
    /\ call' = [op |-> "analyze_schedule_conflicts", start_date |-> WindowStart(start_date, now), end_date |-> WindowEnd(start_date, end_date, now)]
               @@ analyze_schedule_conflicts(events, start_date, end_date, now)
    /\ UNCHANGED <<events, reminders>>

AnalyzerNext ==
    \/ \E title \in Titles, e \in AnalyzedEvents : CreateEvent(MaxAnalyzed, title, e[1], e[2])
    \/ \E w \in AnalyzedWindows, now \in AnalyzerClock : AnalyzeScheduleConflicts(w[1], w[2], now)

SpecAnalyzer == Init /\ [][AnalyzerNext]_vars

(***************************************************************************)
(* The analyzer over busy days: up to MaxBusy events of a few kinds.       *)
(***************************************************************************)
MaxBusy == 8

\* <<start_time, end_time>>
BusyEvents == {<<DateTime(4, 9, 0), DateTime(4, 9, 0)>>, <<DateTime(3, 23, 0), DateTime(4, 6, 0)>>, <<None, DateTime(4, 12, 0)>>}

BusyWindows == {<<DateTime(3, 0, 0), None>>}

BusyNext ==
    \/ \E title \in Titles, e \in BusyEvents : CreateEvent(MaxBusy, title, e[1], e[2])
    \/ \E w \in BusyWindows, now \in AnalyzerClock : AnalyzeScheduleConflicts(w[1], w[2], now)

SpecOverload == Init /\ [][BusyNext]_vars

(***************************************************************************)
(* The planner asked for short windows: one workday and a weekend, a       *)
(* weekend alone, and a window that ends before it starts.                 *)
(***************************************************************************)
\* <<start_date, end_date>>
ShortWindows == {<<DateTime(4, 0, 0), DateTime(6, 23, 0)>>, <<DateTime(5, 0, 0), DateTime(6, 23, 0)>>, <<DateTime(4, 12, 0), DateTime(3, 12, 0)>>}

ShortMaxSuggestions == {5}

ShortNext ==
    \/ \E title \in Titles, start_time \in EventStarts, end_time \in EventEnds : create_event(title, start_time, end_time)
    \/ \E duration_minutes \in Durations, event_type \in EventTypes, w \in ShortWindows, max_suggestions \in ShortMaxSuggestions, now \in Clock :
          SuggestTimeBlocks(duration_minutes, event_type, w[1], w[2], max_suggestions, now)

SpecShort == Init /\ [][ShortNext]_vars

(***************************************************************************)
(* The store queried by window: events are created and get_events is       *)
(* called with both bounds, the second window touching event bounds, the   *)
(* third ending before it starts.                                          *)
(***************************************************************************)
\* <<start_date, end_date>>
QueryWindows == {<<DateTime(4, 9, 30), DateTime(4, 11, 0)>>, <<DateTime(4, 10, 0), DateTime(4, 12, 0)>>, <<DateTime(4, 11, 0), DateTime(4, 9, 30)>>}

GetEvents(start_date, end_date) ==
    /\ call.op # "get_events"
    /\ call' = [op |-> "get_events", start_date |-> start_date, end_date |-> end_date, result |-> get_events(events, start_date, end_date)]
    /\ UNCHANGED <<events, reminders>>

StoreNext ==
    \/ \E title \in Titles, e \in AnalyzedEvents : CreateEvent(MaxAnalyzed, title, e[1], e[2])
    \/ \E w \in QueryWindows : GetEvents(w[1], w[2])

SpecStore == Init /\ [][StoreNext]_vars

(***************************************************************************)
(* The store with reminders: events are created with reminder_minutes,     *)
(* updated, rescheduled and deleted.  A row of the events table has the    *)
(* column reminder_minutes here; a row of the reminders table is           *)
(* [event_id, reminder_time, sent].                                        *)
(***************************************************************************)
ReminderStarts == {DateTime(4, 9, 0), DateTime(4, 10, 0), None}

ReminderEnds == {DateTime(4, 11, 0), None}

ReminderMinutes == {None, 0, 15}

\* the keyword arguments update_event is called with
ReminderUpdates == {[title |-> "Moved"]} \cup {[reminder_minutes |-> m] : m \in ReminderMinutes \ {0}} \cup {[start_time |-> DateTime(4, 10, 0), end_time |-> DateTime(4, 11, 0)]}

\* event ids are fresh uuid4 strings; here the next number above the ids of
\* the table
NextId(rows) == 1 + SetMax({0} \cup {rows[i].id : i \in 1..Len(rows)})

HasEvent(rows, event_id) == \E i \in 1..Len(rows) : rows[i].id = event_id

\* get_event: the Event of the row, with its reminder_minutes
get_event(rows, event_id) ==
    LET row == rows[CHOOSE i \in 1..Len(rows) : rows[i].id = event_id]
    IN  [id |-> row.id, title |-> row.title, start_time |-> from_dict(row).start_time,
         end_time |-> from_dict(row).end_time, reminder_minutes |-> row.reminder_minutes]

\* the row UPDATE writes for the event after the keyword arguments are set
\* on it
UpdatedRow(event, kwargs) ==
    LET value(key) == IF key \in DOMAIN kwargs THEN kwargs[key] ELSE event[key]
    IN  [id |-> event.id, title |-> value("title"),
         start_time |-> IF value("start_time") # None THEN isoformat(value("start_time")) ELSE NULL,
         end_time |-> IF value("end_time") # None THEN isoformat(value("end_time")) ELSE NULL,
         reminder_minutes |-> value("reminder_minutes")]

\* the events table after update_event; the reminders table is not written
update_event(rows, event_id, kwargs) ==
    IF ~HasEvent(rows, event_id) THEN rows
    ELSE [i \in 1..Len(rows) |-> IF rows[i].id = event_id THEN UpdatedRow(get_event(rows, event_id), kwargs) ELSE rows[i]]

CreateEventWithReminder(title, start_time, end_time, reminder_minutes) ==
    /\ Len(events) < MaxEvents
    /\ events' = Append(events, [id |-> NextId(events), title |-> title,
                                  start_time |-> NewRow(events, title, start_time, end_time).start_time,
                                  end_time |-> NewRow(events, title, start_time, end_time).end_time,
                                  reminder_minutes |-> reminder_minutes])
    /\ reminders' = IF reminder_minutes # None /\ reminder_minutes # 0 /\ start_time # None
                    THEN Append(reminders, [event_id |-> NextId(events), reminder_time |-> isoformat(start_time - reminder_minutes), sent |-> FALSE])
                    ELSE reminders
    /\ call' = [op |-> "create_event", result |-> NextId(events)]

UpdateEvent(event_id, kwargs) ==
    /\ events' = update_event(events, event_id, kwargs)
    /\ call' = [op |-> "update_event", event_id |-> event_id, result |-> HasEvent(events, event_id)]
    /\ UNCHANGED reminders

RescheduleEvent(event_id, new_start, new_end) ==
    /\ events' = IF ~HasEvent(events, event_id) THEN events
                 ELSE LET event == get_event(events, event_id)
                          end == IF new_end = None /\ event.start_time # None /\ event.end_time # None
                                 THEN new_start + (event.end_time - event.start_time)
                                 ELSE new_end
                      IN  update_event(events, event_id, [start_time |-> new_start, end_time |-> end])
    /\ call' = [op |-> "reschedule_event", event_id |-> event_id, result |-> HasEvent(events, event_id)]
    /\ UNCHANGED reminders

DeleteEvent(event_id) ==
    /\ events' = SelectSeq(events, LAMBDA row : row.id # event_id)
    /\ reminders' = SelectSeq(reminders, LAMBDA row : row.event_id # event_id)
    /\ call' = [op |-> "delete_event", event_id |-> event_id, result |-> HasEvent(events, event_id)]

RemindersNext ==
    \/ \E title \in Titles, start_time \in ReminderStarts, end_time \in ReminderEnds, reminder_minutes \in ReminderMinutes :
          CreateEventWithReminder(title, start_time, end_time, reminder_minutes)
    \/ \E event_id \in 1..(MaxEvents + 1), kwargs \in ReminderUpdates : UpdateEvent(event_id, kwargs)
    \/ \E event_id \in 1..(MaxEvents + 1), new_start \in ReminderStarts \ {None}, new_end \in ReminderEnds : RescheduleEvent(event_id, new_start, new_end)
    \/ \E event_id \in 1..(MaxEvents + 1) : DeleteEvent(event_id)

SpecReminders == Init /\ [][RemindersNext]_vars

(***************************************************************************)
(* The properties                                                          *)
(***************************************************************************)
Max(a, b) == IF a >= b THEN a ELSE b

Min(a, b) == IF a <= b THEN a ELSE b

\* [s1, e1) and [s2, e2) share a point of time
Intersects(s1, e1, s2, e2) == Max(s1, s2) < Min(e1, e2)

FinderRan == call.op = "_find_free_slots"

ScorerRan == call.op = "_score_time_slot"

SuggesterRan == call.op = "suggest_time_blocks"

\* C1: every slot _find_free_slots returns is disjoint from [start, end) of
\* every event of the day that has both a start and an end
C1_SlotsDisjointFromEvents ==
    FinderRan =>
        \A k \in 1..Len(call.free_slots), i \in 1..Len(call.day_events) :
            (call.day_events[i].start_time # None /\ call.day_events[i].end_time # None)
            => ~Intersects(call.free_slots[k][1], call.free_slots[k][2], call.day_events[i].start_time, call.day_events[i].end_time)

\* C2: every slot (s, e) _find_free_slots returns has workStart <= s and
\* e <= workEnd
C2_SlotsInsideWorkHours ==
    FinderRan =>
        \A k \in 1..Len(call.free_slots) :
            call.work_start <= call.free_slots[k][1] /\ call.free_slots[k][2] <= call.work_end

C4_NoWeekendBlock ==
    SuggesterRan =>
        \A k \in 1..Len(call.result) :
            WeekdayOf(call.result[k].start_time) < 5 /\ WeekdayOf(call.result[k].end_time) < 5

\* C5: the score _score_time_slot returns is between 0 and 100 (0 and 1200
\* twelfths), whatever the bonuses and penalties add up to
C5_ScoreWithinBounds == ScorerRan => (0 <= call.score /\ call.score <= 12 * 100)

\* C5, its case: the bonuses added up to more than 100 and the scorer ran
C5_Witness == ScorerRan /\ UnclampedScore(call.start_time, call.end_time, call.event_type, call.day_events) > 12 * 100

\* the penalties can also take the sum below 0
C5_WitnessBelow == ScorerRan /\ UnclampedScore(call.start_time, call.end_time, call.event_type, call.day_events) < 0

\* C6: every block suggest_time_blocks returns lasts exactly the requested
\* duration
C6_BlockLastsDuration ==
    SuggesterRan =>
        \A k \in 1..Len(call.result) : call.result[k].end_time - call.result[k].start_time = call.duration_minutes

\* C6, its case: a returned block was cut from the gap after an event, not
\* from the start of the work hours
C6_Witness ==
    /\ SuggesterRan
    /\ \E k \in 1..Len(call.result) : <<HourOf(call.result[k].start_time), MinuteOf(call.result[k].start_time)>> # work_start

\* C7: the returned blocks are in non-increasing order of score, and blocks
\* of equal score are in the order they were generated
C7_RankedByScoreStable ==
    SuggesterRan =>
        /\ \A k \in 1..Len(call.returned) : call.returned[k] \in 1..Len(call.suggestions) /\ call.result[k] = call.suggestions[call.returned[k]]
        /\ \A k, l \in 1..Len(call.returned) :
              k < l => /\ call.result[k].score >= call.result[l].score
                       /\ call.result[k].score = call.result[l].score => call.returned[k] < call.returned[l]

\* C7, its case: the sort moved a block ahead of an earlier generated one,
\* and two blocks of different days tie
C7_Witness ==
    /\ SuggesterRan
    /\ \E k, l \in 1..Len(call.returned) : k < l /\ call.returned[k] > call.returned[l]
    /\ \E k, l \in 1..Len(call.returned) : k < l /\ call.result[k].score = call.result[l].score /\ call.result[k].start_time # call.result[l].start_time

\* the generated blocks that are not returned
LeftOut == {g \in 1..Len(call.suggestions) : \A k \in 1..Len(call.returned) : call.returned[k] # g}

NoBetterLeftOut == \A g \in LeftOut, k \in 1..Len(call.result) : call.suggestions[g].score <= call.result[k].score

\* C8 as stated: for every max_suggestions, at most max_suggestions blocks
\* are returned and no block left out scores higher than a returned one
C8_AtMostMaxSuggestions == SuggesterRan => (Len(call.result) <= call.max_suggestions /\ NoBetterLeftOut)

\* C8 as amended: for every max_suggestions >= 0 at most max_suggestions
\* blocks are returned; for every max_suggestions no block left out scores
\* higher than a returned one
C8_AtMostMaxSuggestionsNonNegative ==
    SuggesterRan =>
        /\ call.max_suggestions >= 0 => Len(call.result) <= call.max_suggestions
        /\ NoBetterLeftOut

\* C8, its case: more blocks were generated than asked for, and the list
\* was cut
C8_Witness ==
    /\ SuggesterRan
    /\ call.max_suggestions >= 0
    /\ Len(call.suggestions) > call.max_suggestions
    /\ Len(call.result) = call.max_suggestions
    /\ \E g \in LeftOut, k \in 1..Len(call.result) : call.suggestions[g].score < call.result[k].score

\* C10: with no qualifying event and a duration that fits the work hours,
\* _find_free_slots returns exactly one slot, [workStart, workStart+duration)
C10_OneSlotOnEmptyDay ==
    (FinderRan /\ SortedEvents(call.day_events) = <<>> /\ call.work_end - call.work_start >= call.duration)
    => call.free_slots = << <<call.work_start, call.work_start + call.duration>> >>

\* C11: the slots _find_free_slots returns for one day are pairwise
\* disjoint, so no two of them are the same interval or overlap
C11_SlotsPairwiseDisjoint ==
    FinderRan =>
        \A k, l \in 1..Len(call.free_slots) :
            k < l => ~Intersects(call.free_slots[k][1], call.free_slots[k][2], call.free_slots[l][1], call.free_slots[l][2])

\* the day has an event, every event has start < end inside the work hours,
\* no two events overlap, and the duration is positive
WellFormedDay ==
    /\ call.day_events # <<>>
    /\ call.duration > 0
    /\ \A i \in 1..Len(call.day_events) :
          /\ call.day_events[i].start_time # None /\ call.day_events[i].end_time # None
          /\ call.day_events[i].start_time < call.day_events[i].end_time
          /\ call.work_start <= call.day_events[i].start_time /\ call.day_events[i].end_time <= call.work_end
    /\ \A i, j \in 1..Len(call.day_events) :
          i < j => ~Intersects(call.day_events[i].start_time, call.day_events[i].end_time, call.day_events[j].start_time, call.day_events[j].end_time)

\* the first event start, or the end of the work hours, at or after t
NextStartFrom(t) == SetMin({call.day_events[j].start_time : j \in {j \in 1..Len(call.day_events) : call.day_events[j].start_time >= t}} \cup {call.work_end})

\* the gaps of a well-formed day as <<start, end>>: from the start of the
\* work hours to the first event, and from every event's end to the next
\* event or to the end of the work hours
DayGaps ==
    {<<call.work_start, NextStartFrom(call.work_start)>>}
    \cup {<<call.day_events[i].end_time, NextStartFrom(call.day_events[i].end_time)>> : i \in 1..Len(call.day_events)}

\* C12: on a well-formed day _find_free_slots returns, in chronological
\* order, exactly one slot [g, g + duration) for every gap starting at g
\* that is at least duration long, and none for a shorter gap
C12_OneSlotPerFittingGap ==
    (FinderRan /\ WellFormedDay) =>
        /\ {call.free_slots[k] : k \in 1..Len(call.free_slots)} = {<<g[1], g[1] + call.duration>> : g \in {g \in DayGaps : g[2] - g[1] >= call.duration}}
        /\ \A k, l \in 1..Len(call.free_slots) : k < l => call.free_slots[k][1] < call.free_slots[l][1]

\* C12, its case: a well-formed day of two events with a gap that fits, a
\* gap that is exactly the duration and a gap too short for it
C12_Witness ==
    /\ FinderRan /\ WellFormedDay
    /\ Len(call.day_events) = 2
    /\ Len(call.free_slots) >= 2
    /\ \E g \in DayGaps : g[2] - g[1] = call.duration
    /\ \E g \in DayGaps : 0 < g[2] - g[1] /\ g[2] - g[1] < call.duration

OverlapRan == call.op = "_events_overlap"

AnalyzerRan == call.op = "analyze_schedule_conflicts"

\* C13: _events_overlap gives the same answer for a pair of events in
\* either order, with or without missing timestamps
C13_OverlapSymmetric == OverlapRan => call.overlap = call.overlap_swapped

\* C13, its case: two different events that overlap were tested in both
\* orders
C13_Witness == OverlapRan /\ call.event1 # call.event2 /\ call.overlap

\* a pair with a missing timestamp was tested too
C13_WitnessMissing == OverlapRan /\ call.event1.end_time = None /\ call.event2.start_time # None /\ call.event2.end_time # None

HasBoth(e) == e.start_time # None /\ e.end_time # None

\* C14 as stated: _events_overlap(e, e) is false for every fetched event e
C14_NeverOverlapsItself ==
    AnalyzerRan => \A i \in 1..Len(call.fetched) : ~_events_overlap(call.fetched[i], call.fetched[i])

\* C14 as amended: _events_overlap(e, e) holds exactly for the events with
\* start < end, and every conflict the analyzer reports is between two
\* different fetched events
C14_NoConflictWithItself ==
    AnalyzerRan =>
        /\ \A i \in 1..Len(call.fetched) :
              _events_overlap(call.fetched[i], call.fetched[i]) <=> (HasBoth(call.fetched[i]) /\ call.fetched[i].start_time < call.fetched[i].end_time)
        /\ \A k \in 1..Len(call.analysis.conflicts) :
              \E i, j \in 1..Len(call.fetched) :
                  /\ i # j
                  /\ HasBoth(call.fetched[i]) /\ HasBoth(call.fetched[j])
                  /\ call.analysis.conflicts[k].event1 = call.fetched[i].title
                  /\ call.analysis.conflicts[k].event2 = call.fetched[j].title
                  /\ call.analysis.conflicts[k].overlap_start = Max(call.fetched[i].start_time, call.fetched[j].start_time)
                  /\ call.analysis.conflicts[k].overlap_end = Min(call.fetched[i].end_time, call.fetched[j].end_time)

\* C14, its case: an event that overlaps itself was fetched and no conflict
\* is reported
C14_Witness ==
    /\ AnalyzerRan
    /\ \E i \in 1..Len(call.fetched) : _events_overlap(call.fetched[i], call.fetched[i])
    /\ call.analysis.conflicts = <<>>

\* the unordered pairs of fetched events, as positions <<i, j>> with i < j,
\* that have all four timestamps and start1 < end2 and start2 < end1
OverlappingPairs ==
    {p \in (1..Len(call.fetched)) \X (1..Len(call.fetched)) :
        /\ p[1] < p[2]
        /\ HasBoth(call.fetched[p[1]]) /\ HasBoth(call.fetched[p[2]])
        /\ call.fetched[p[1]].start_time < call.fetched[p[2]].end_time
        /\ call.fetched[p[2]].start_time < call.fetched[p[1]].end_time}

IsConflictOf(conflict, p) ==
    /\ {conflict.event1, conflict.event2} = {call.fetched[p[1]].title, call.fetched[p[2]].title}
    /\ conflict.overlap_start = Max(call.fetched[p[1]].start_time, call.fetched[p[2]].start_time)
    /\ conflict.overlap_end = Min(call.fetched[p[1]].end_time, call.fetched[p[2]].end_time)

\* C15: the conflicts reported are those of the overlapping pairs and of no
\* other pair, one conflict for each pair, each with the overlap
\* max(start1, start2) .. min(end1, end2)
C15_ConflictPerOverlappingPair ==
    AnalyzerRan =>
        /\ Len(call.analysis.conflicts) = Cardinality(OverlappingPairs)
        /\ \A p \in OverlappingPairs : \E k \in 1..Len(call.analysis.conflicts) : IsConflictOf(call.analysis.conflicts[k], p)
        /\ \A k \in 1..Len(call.analysis.conflicts) : \E p \in OverlappingPairs : IsConflictOf(call.analysis.conflicts[k], p)

\* C15, its case: of three fetched events two touch at an endpoint, two
\* overlap, and a conflict is reported
C15_Witness ==
    /\ AnalyzerRan
    /\ call.analysis.conflicts # <<>>
    /\ Len(call.analysis.conflicts) < 3
    /\ \E i, j \in 1..Len(call.fetched) :
          /\ HasBoth(call.fetched[i]) /\ HasBoth(call.fetched[j])
          /\ call.fetched[i].start_time < call.fetched[i].end_time
          /\ call.fetched[j].start_time < call.fetched[j].end_time
          /\ call.fetched[i].end_time = call.fetched[j].start_time

\* the positions i of the start-sorted list of fetched events with both
\* times at which the event and the next one are on the same date, more
\* than two hours apart
LargeGapsAt ==
    LET sorted_events == SortedEvents(call.fetched)
    IN  {i \in 1..(Len(sorted_events) - 1) :
            /\ DateOf(sorted_events[i].end_time) = DateOf(sorted_events[i + 1].start_time)
            /\ sorted_events[i + 1].start_time - sorted_events[i].end_time > 120}

IsGapAt(gap, i) ==
    LET sorted_events == SortedEvents(call.fetched)
    IN  /\ gap.after_event = sorted_events[i].title
        /\ gap.before_event = sorted_events[i + 1].title
        /\ gap.start_time = sorted_events[i].end_time
        /\ gap.end_time = sorted_events[i + 1].start_time
        /\ gap.gap_duration_hours = sorted_events[i + 1].start_time - sorted_events[i].end_time

\* C16: the gaps reported are those of the adjacent pairs of the sorted list
\* that are on the same date and strictly more than two hours apart, one gap
\* for each such pair and none for any other
C16_GapPerLargeSameDayPair ==
    AnalyzerRan =>
        /\ Len(call.analysis.gaps) = Cardinality(LargeGapsAt)
        /\ \A i \in LargeGapsAt : \E k \in 1..Len(call.analysis.gaps) : IsGapAt(call.analysis.gaps[k], i)
        /\ \A k \in 1..Len(call.analysis.gaps) : \E i \in LargeGapsAt : IsGapAt(call.analysis.gaps[k], i)

\* C16, its case: a gap is reported, and an adjacent pair more than two
\* hours apart across midnight is not
C16_Witness ==
    /\ AnalyzerRan
    /\ Len(call.analysis.gaps) = 1
    /\ \E i \in 1..(Len(SortedEvents(call.fetched)) - 1) :
          /\ SortedEvents(call.fetched)[i + 1].start_time - SortedEvents(call.fetched)[i].end_time > 120
          /\ DateOf(SortedEvents(call.fetched)[i].end_time) # DateOf(SortedEvents(call.fetched)[i + 1].start_time)

\* an adjacent pair exactly two hours apart, and no gap reported
C16_WitnessTwoHours ==
    /\ AnalyzerRan
    /\ call.analysis.gaps = <<>>
    /\ \E i \in 1..(Len(SortedEvents(call.fetched)) - 1) :
          SortedEvents(call.fetched)[i + 1].start_time - SortedEvents(call.fetched)[i].end_time = 120

\* every fetched event that has both times ends no earlier than it starts
FetchedWellFormed == \A i \in 1..Len(call.fetched) : HasBoth(call.fetched[i]) => call.fetched[i].start_time <= call.fetched[i].end_time

\* C17: no fetched event with a start and an end overlaps the interval
\* (start_time, end_time) of a reported gap; stated for the event sets in
\* which no event ends before it starts
C17_GapsAreIdle ==
    (AnalyzerRan /\ FetchedWellFormed) =>
        \A k \in 1..Len(call.analysis.gaps), i \in 1..Len(call.fetched) :
            HasBoth(call.fetched[i])
            => ~Intersects(call.analysis.gaps[k].start_time, call.analysis.gaps[k].end_time, call.fetched[i].start_time, call.fetched[i].end_time)

\* the fetched events that start on the date
StartingOn(date) == {i \in 1..Len(call.fetched) : call.fetched[i].start_time # None /\ DateOf(call.fetched[i].start_time) = date}

StartDates == {DateOf(call.fetched[i].start_time) : i \in {i \in 1..Len(call.fetched) : call.fetched[i].start_time # None}}

C18_WitnessSeven ==
    /\ AnalyzerRan
    /\ Len(call.fetched) = 8
    /\ \E date \in StartDates : Cardinality(StartingOn(date)) = 7
    /\ call.analysis.overloaded_days = <<>>

RescheduleHint == "Consider rescheduling conflicting events for better time management"

FillGapHint == "Large gaps in schedule could be used for focused work or meetings"

RedistributeHint == "Some days are overloaded - consider redistributing events"

HintRank(hint) == IF hint = RescheduleHint THEN 1 ELSE IF hint = FillGapHint THEN 2 ELSE 3

Holds(hint) == \E k \in 1..Len(call.analysis.optimization_suggestions) : call.analysis.optimization_suggestions[k] = hint

\* C19: the suggestions hold the reschedule hint iff there are conflicts,
\* the fill-gap hint iff there are gaps and the redistribute hint iff there
\* are overloaded days, each at most once and in that order, and nothing
\* else
C19_HintPerFinding ==
    AnalyzerRan =>
        /\ Holds(RescheduleHint) <=> call.analysis.conflicts # <<>>
        /\ Holds(FillGapHint) <=> call.analysis.gaps # <<>>
        /\ Holds(RedistributeHint) <=> call.analysis.overloaded_days # <<>>
        /\ \A k \in 1..Len(call.analysis.optimization_suggestions) :
              call.analysis.optimization_suggestions[k] \in {RescheduleHint, FillGapHint, RedistributeHint}
        /\ \A k, l \in 1..Len(call.analysis.optimization_suggestions) :
              k < l => HintRank(call.analysis.optimization_suggestions[k]) < HintRank(call.analysis.optimization_suggestions[l])

\* C19, its case: conflicts and an overloaded day but no gap, and the
\* suggestions are the reschedule hint followed by the redistribute hint
C19_Witness ==
    /\ AnalyzerRan
    /\ call.analysis.conflicts # <<>> /\ call.analysis.gaps = <<>> /\ call.analysis.overloaded_days # <<>>
    /\ Len(call.analysis.optimization_suggestions) = 2

\* gaps only, and no finding at all
C19_WitnessGapsOnly == AnalyzerRan /\ call.analysis.conflicts = <<>> /\ call.analysis.gaps # <<>> /\ call.analysis.overloaded_days = <<>>

C19_WitnessNoFinding == AnalyzerRan /\ call.fetched # <<>> /\ call.analysis.optimization_suggestions = <<>>

\* C20: for a duration of zero or less _find_free_slots returns no slot
C20_NoSlotForNonPositiveDuration == (FinderRan /\ call.duration <= 0) => call.free_slots = <<>>

\* C21: for a duration longer than the work hours _find_free_slots returns
\* no slot, whatever the events of the day
C21_NoSlotForDurationBeyondWorkHours == (FinderRan /\ call.duration > call.work_end - call.work_start) => call.free_slots = <<>>

\* every stored event that has both times ends no earlier than it starts
StoreWellFormed == \A i \in 1..Len(events) : HasBoth(from_dict(events[i])) => from_dict(events[i]).start_time <= from_dict(events[i]).end_time

\* [t, t + duration) is inside the work hours of the date and meets no
\* stored event
IsFreeAt(date, t, duration) ==
    /\ DateTime(date, work_start[1], work_start[2]) <= t
    /\ t + duration <= DateTime(date, work_end[1], work_end[2])
    /\ \A i \in 1..Len(events) :
          HasBoth(from_dict(events[i])) => ~Intersects(t, t + duration, from_dict(events[i]).start_time, from_dict(events[i]).end_time)

\* the workdays among the dates of the window for which the duration fits
\* a gap; the times of the model are on the half hour
DaysWithFittingGap ==
    {date \in DateOf(call.start_date)..DateOf(call.end_date) :
        /\ _is_workday(date)
        /\ \E k \in 0..(2 * 24) : IsFreeAt(date, DateTime(date, 0, 0) + 30 * k, call.duration_minutes)}

\* C22: when the window holds no workday (its last date precedes its first,
\* or it is a weekend) or the positive duration fits no gap of any workday
\* of the window, suggest_time_blocks returns the empty list; stated for the
\* stores in which no event ends before it starts
C22_EmptyResultWithoutFittingGap ==
    (SuggesterRan /\ call.duration_minutes > 0 /\ StoreWellFormed /\ DaysWithFittingGap = {}) => call.result = <<>>

\* C28: every block suggest_time_blocks returns starts at or after
\* start_date and ends at or before end_date
C28_BlocksInsideWindow ==
    SuggesterRan =>
        \A k \in 1..Len(call.result) : call.start_date <= call.result[k].start_time /\ call.result[k].end_time <= call.end_date

\* C23 as stated: for a category outside the profile table the score is the
\* base score with the buffer bonus, the weekday adjustment and the
\* time-of-day adjustment, clamped, and nothing else
C23_UnknownCategoryBaseRulesOnly ==
    (ScorerRan /\ call.event_type \notin DOMAIN event_type_preferences) =>
        call.score = Clamp(12 * 50 + BufferBonus(call.start_time, call.end_time, call.day_events) + WeekdayAdjustment(call.start_time)
                           + TimeOfDayAdjustment(call.start_time, call.event_type))

\* C23 as amended: for a category outside the profile table the score is
\* the base score with the buffer bonus, the weekday adjustment, the -20 of
\* an hour >= 17 and the lunch penalty of the hours 12 and 13, clamped
C23_UnknownCategoryWithLunchPenalty ==
    (ScorerRan /\ call.event_type \notin DOMAIN event_type_preferences) =>
        call.score = Clamp(12 * 50 + BufferBonus(call.start_time, call.end_time, call.day_events) + WeekdayAdjustment(call.start_time)
                           - (IF HourOf(call.start_time) >= 17 THEN 12 * 20 ELSE 0)
                           - (IF HourOf(call.start_time) \in {12, 13} THEN 12 * 25 ELSE 0))

\* C23, its case: a slot of the lunch hours was scored for a category
\* outside the profile table
C23_Witness ==
    /\ ScorerRan
    /\ call.event_type \notin DOMAIN event_type_preferences
    /\ HourOf(call.start_time) = 12
    /\ 0 < call.score /\ call.score < 12 * 50

\* minutes between the slot start and an anchor <<hour, minute>>
MinutesOff(anchor) == Abs((call.start_time % (24 * 60)) - (60 * anchor[1] + anchor[2]))

\* the sum C24 describes, in twelfths of a point
ClaimedScore ==
    LET preferred == event_type_preferences[call.event_type].preferred_times
        avoided == event_type_preferences[call.event_type].avoid_times
        hour == (call.start_time % (24 * 60)) \div 60
        weekday == (call.start_time \div (24 * 60)) % 7
    IN  12 * 50
        + SumSeq([k \in 1..Len(preferred) |-> IF MinutesOff(preferred[k]) <= 30 THEN (12 * 20 * (30 - MinutesOff(preferred[k]))) \div 30 ELSE 0])
        - SumSeq([k \in 1..Len(avoided) |-> IF MinutesOff(avoided[k]) <= 60 THEN (12 * 15 * (60 - MinutesOff(avoided[k]))) \div 60 ELSE 0])
        + (IF _get_buffer_time(call.start_time, call.day_events, TRUE) >= 15 THEN 12 * 10 ELSE 0)
        + (IF _get_buffer_time(call.end_time, call.day_events, FALSE) >= 15 THEN 12 * 10 ELSE 0)
        + (IF weekday = 0 THEN 12 * 5 ELSE 0) - (IF weekday = 4 THEN 12 * 5 ELSE 0) - (IF weekday \in {5, 6} THEN 12 * 20 ELSE 0)
        + (IF hour \in 9..11 /\ call.event_type \in {"focus", "meeting"} THEN 12 * 15 ELSE 0)
        + (IF hour \in 14..16 /\ call.event_type \in {"meeting", "call"} THEN 12 * 10 ELSE 0)
        - (IF hour >= 17 THEN 12 * 20 ELSE 0)
        - (IF hour \in {12, 13} /\ call.event_type # "lunch" THEN 12 * 25 ELSE 0)
        + 12 * 5 * Cardinality({i \in 1..Len(call.day_events) :
                                   /\ call.day_events[i].start_time # None
                                   /\ call.start_time - 120 <= call.day_events[i].start_time
                                   /\ call.day_events[i].start_time <= call.end_time + 120
                                   /\ _are_event_types_similar(call.event_type, call.day_events[i].title)})

\* C24: for a category of the profile table the score is the sum of the
\* base score and the seven adjustments, clamped to [0, 100]
C24_ScoreIsClampedSum ==
    (ScorerRan /\ call.event_type \in DOMAIN event_type_preferences) =>
        call.score = (IF ClaimedScore > 12 * 100 THEN 12 * 100 ELSE IF ClaimedScore < 0 THEN 0 ELSE ClaimedScore)

\* C24, its case: two preferred anchors of the category are less than 30
\* minutes from the slot start, and the day has events
C24_Witness ==
    /\ ScorerRan
    /\ call.event_type \in DOMAIN event_type_preferences
    /\ call.day_events # <<>>
    /\ \E k, l \in 1..Len(PreferredTimes(call.event_type)) :
          k < l /\ MinutesOff(PreferredTimes(call.event_type)[k]) < 30 /\ MinutesOff(PreferredTimes(call.event_type)[l]) < 30

\* an avoided anchor counts, and an event clusters with the slot
C24_WitnessAvoided ==
    /\ ScorerRan
    /\ call.event_type \in DOMAIN event_type_preferences
    /\ AvoidPenalty(call.start_time, call.event_type) > 0
    /\ ClusteringBonus(call.start_time, call.end_time, call.event_type, call.day_events) > 0
    /\ 0 < call.score /\ call.score < 12 * 100

ReasonRan == call.op = "_generate_reason"

\* C26: the reason is not empty; it has a time-of-day label when the score
\* has a time-of-day adjustment or the lunch penalty, a buffer description
\* exactly when it has a buffer bonus, a clustering count exactly when it
\* has the clustering bonus and a weekday note exactly when it has a
\* weekday adjustment
C26_ReasonMirrorsScore ==
    ReasonRan =>
        /\ call.reason # ""
        /\ (TimeOfDayAdjustment(call.start_time, call.event_type) # 0 \/ LunchPenalty(call.start_time, call.event_type) # 0)
              => \E label \in {"optimal morning focus time", "productive afternoon slot", "lunch time", "after-hours slot"} : Contains(call.reason, label)
        /\ (BufferBonus(call.start_time, call.end_time, call.day_events) > 0)
              <=> (Contains(call.reason, "well-spaced with buffer time") \/ Contains(call.reason, "has buffer time"))
        /\ (ClusteringBonus(call.start_time, call.end_time, call.event_type, call.day_events) > 0) <=> Contains(call.reason, "groups with ")
        /\ (WeekdayAdjustment(call.start_time) # 0) <=> (Contains(call.reason, "fresh start of week") \/ Contains(call.reason, "end of week wrap-up"))

GetEventsRan == call.op = "get_events"

\* the stored event of the id is among the events get_events returned
IsReturned(id) == \E k \in 1..Len(call.result) : call.result[k].id = id

ReturnedIffIntersects ==
    \A i \in 1..Len(events) :
        (HasBoth(from_dict(events[i])) /\ from_dict(events[i]).start_time <= from_dict(events[i]).end_time)
        => (IsReturned(events[i].id) <=> (from_dict(events[i]).start_time <= call.end_date /\ from_dict(events[i]).end_time >= call.start_date))

OrderedByStart ==
    \A k, l \in 1..Len(call.result) :
        (k < l /\ call.result[k].start_time # None /\ call.result[l].start_time # None) => call.result[k].start_time <= call.result[l].start_time

\* C25 as stated: for every window, a stored event with both times and
\* start <= end is returned iff start <= e and end >= s, and the result is
\* in ascending order of start
C25_ReturnedIffIntersects == GetEventsRan => (ReturnedIffIntersects /\ OrderedByStart)

\* C25 as amended: the same for the windows with s <= e
C25_ReturnedIffIntersectsForwardWindow == (GetEventsRan /\ call.start_date <= call.end_date) => (ReturnedIffIntersects /\ OrderedByStart)

\* C25, its case: of the stored events one covers the window from before
\* its start to after its end and is returned, one starts exactly at the
\* end of the window and is returned, and one is left out
C25_Witness ==
    /\ GetEventsRan /\ call.start_date <= call.end_date
    /\ \E i \in 1..Len(events) :
          /\ HasBoth(from_dict(events[i]))
          /\ from_dict(events[i]).start_time < call.start_date /\ call.end_date < from_dict(events[i]).end_time
          /\ IsReturned(events[i].id)
    /\ \E i \in 1..Len(events) :
          /\ HasBoth(from_dict(events[i]))
          /\ from_dict(events[i]).start_time = call.end_date /\ call.end_date < from_dict(events[i]).end_time
          /\ IsReturned(events[i].id)
    /\ \E i \in 1..Len(events) :
          /\ HasBoth(from_dict(events[i]))
          /\ from_dict(events[i]).start_time <= from_dict(events[i]).end_time
          /\ ~IsReturned(events[i].id)

\* the pairs of positions the analysis reports as conflicts, in the order of
\* analysis['conflicts']
ReportedPairs ==
    SelectSeq(ComparedPairs(Len(call.fetched)), LAMBDA p : _events_overlap(call.fetched[p[1]], call.fetched[p[2]]))

\* the k-th conflict is that of two fetched events with start <= end
BothWellFormed(k) ==
    /\ call.fetched[ReportedPairs[k][1]].start_time <= call.fetched[ReportedPairs[k][1]].end_time
    /\ call.fetched[ReportedPairs[k][2]].start_time <= call.fetched[ReportedPairs[k][2]].end_time

\* the k-th conflict is that of two fetched events with start < end
BothOfPositiveLength(k) ==
    /\ call.fetched[ReportedPairs[k][1]].start_time < call.fetched[ReportedPairs[k][1]].end_time
    /\ call.fetched[ReportedPairs[k][2]].start_time < call.fetched[ReportedPairs[k][2]].end_time

\* C27 as stated: every reported conflict between two events with
\* start <= end has overlap_start < overlap_end
C27_OverlapNotEmpty ==
    AnalyzerRan =>
        \A k \in 1..Len(call.analysis.conflicts) :
            BothWellFormed(k) => call.analysis.conflicts[k].overlap_start < call.analysis.conflicts[k].overlap_end

\* C27 as amended: every reported conflict between two events with
\* start <= end has overlap_start <= overlap_end, and
\* overlap_start < overlap_end when the two events have start < end
C27_OverlapNotInverted ==
    AnalyzerRan =>
        \A k \in 1..Len(call.analysis.conflicts) :
            /\ BothWellFormed(k) => call.analysis.conflicts[k].overlap_start <= call.analysis.conflicts[k].overlap_end
            /\ BothOfPositiveLength(k) => call.analysis.conflicts[k].overlap_start < call.analysis.conflicts[k].overlap_end

\* C27, its case: an event of zero length inside another is reported with an
\* overlap of zero length, and two events of positive length with an
\* overlap of positive length
C27_Witness ==
    /\ AnalyzerRan
    /\ \E k \in 1..Len(call.analysis.conflicts) :
          BothWellFormed(k) /\ call.analysis.conflicts[k].overlap_start = call.analysis.conflicts[k].overlap_end
    /\ \E k \in 1..Len(call.analysis.conflicts) : BothOfPositiveLength(k)

\* the slots of the finder that are anchored at the end of an event: those
\* after the slot before the first event
AnchoredAtEventEnd ==
    LET sorted_events == SortedEvents(call.day_events)
    IN  IF sorted_events = <<>> THEN {}
        ELSE (Len(SlotBeforeFirst(call.work_start, call.work_end, sorted_events, call.duration)) + 1)..Len(call.free_slots)

DayWellFormed == \A i \in 1..Len(call.day_events) : HasBoth(call.day_events[i]) => call.day_events[i].start_time <= call.day_events[i].end_time

\* C29: on a day whose events have start <= end, every slot anchored at the
\* end of an event has a buffer-before of 0, below the 15 minutes of the
\* bonus
C29_NoBufferBeforeAtEventEnd ==
    (FinderRan /\ DayWellFormed) =>
        \A k \in AnchoredAtEventEnd : _get_buffer_time(call.free_slots[k][1], call.day_events, TRUE) = 0

\* C29, its case: the day gives a slot at the start of the work hours with
\* the buffer of the bonus, and a slot anchored at the end of an event that
\* another event precedes by more than 15 minutes
C29_Witness ==
    /\ FinderRan /\ DayWellFormed
    /\ AnchoredAtEventEnd # {}
    /\ \E k \in 1..Len(call.free_slots) : k \notin AnchoredAtEventEnd /\ _get_buffer_time(call.free_slots[k][1], call.day_events, TRUE) >= 15
    /\ \E k \in AnchoredAtEventEnd, i \in 1..Len(call.day_events) :
          HasBoth(call.day_events[i]) /\ call.day_events[i].end_time + 15 <= call.free_slots[k][1]

\* C30: every row of the reminders table has the reminder_time of its
\* event's start_time minus its event's reminder_minutes, as they are now
C30_RemindersFollowEvents ==
    \A r \in 1..Len(reminders) :
        \E i \in 1..Len(events) :
            /\ events[i].id = reminders[r].event_id
            /\ events[i].start_time # NULL
            /\ events[i].reminder_minutes # None
            /\ reminders[r].reminder_time = isoformat(fromisoformat(events[i].start_time) - events[i].reminder_minutes)

====
